---- MODULE Spec2Model ----
(***************************************************************************)
(* A model of src/app.py: PoliceShootingsAnalysis (load_data and the five  *)
(* analysis methods) and main().                                           *)
(*                                                                         *)
(* A table (pandas DataFrame) is a record [isNone, columns, rows]; rows is *)
(* a sequence of records that always carry every field, and `columns`      *)
(* says which fields exist as columns.  A missing value is NA ("") in a    *)
(* text column, NaN (-1) in a numeric column and NaT in the date column.   *)
(* A float the code computes by a division is kept exact, as the record    *)
(* [num, den].                                                             *)
(*                                                                         *)
(* A Series that value_counts() returns is a sequence of blocks, most      *)
(* frequent first; a block is the set of the entries [key, count] with one *)
(* count.  The sort inside value_counts() does not determine the order of  *)
(* entries with equal counts, so the model keeps none: where the code cuts *)
(* such a Series (head(n), iloc[n:]) every cut that some order of the      *)
(* equal entries yields is a possible outcome.  The operators whose names  *)
(* end in `Results` give the set of the possible outcomes.  The rounded    *)
(* percentages are computed in IEEE 754 doubles, bit by bit, as the code   *)
(* computes them.                                                          *)
(***************************************************************************)
EXTENDS Integers, Sequences, FiniteSets, TLC

VARIABLES csv_file, shootings_data, pc, executed, load_ret,
          basic, temporal, demographic, geographic, summary

vars == <<csv_file, shootings_data, pc, executed, load_ret,
          basic, temporal, demographic, geographic, summary>>

-----------------------------------------------------------------------------
(* Missing values *)

NA == ""

NaN == -1

\* A Timestamp is a record [year, month, day]; NaT is the one with year 0.
NaT == [year |-> 0, month |-> 0, day |-> 0]

IsNaT(d) == d.year = 0

-----------------------------------------------------------------------------
(* Bounds of the model *)

\* The longest table built freely from the rows of RowPool.
MaxRows == 2

\* The number of method calls made on an object that is driven directly.
MaxCalls == 3

-----------------------------------------------------------------------------
(* Generic sequence helpers *)

Range(s) == {s[i] : i \in DOMAIN s}

RECURSIVE SumSeq(_)
SumSeq(s) == IF s = <<>> THEN 0 ELSE Head(s) + SumSeq(Tail(s))

Min(S) == CHOOSE x \in S : \A y \in S : x <= y

Max(S) == CHOOSE x \in S : \A y \in S : x >= y

\* The members of a finite set, in some order.
RECURSIVE SeqOf(_)
SeqOf(S) ==
    IF S = {} THEN <<>>
    ELSE LET x == CHOOSE x \in S : TRUE IN <<x>> \o SeqOf(S \ {x})

Counts(vc) == [i \in DOMAIN vc |-> vc[i].count]

-----------------------------------------------------------------------------
(* Calendar: what pandas derives from a Timestamp *)

IsLeap(y) == (y % 4 = 0 /\ y % 100 # 0) \/ y % 400 = 0

DaysInMonth(y, m) ==
    IF m = 2 THEN (IF IsLeap(y) THEN 29 ELSE 28)
    ELSE IF m \in {4, 6, 9, 11} THEN 30 ELSE 31

\* A CSV date cell is the text "y-m-d", kept as <<y, m, d>>, or <<>> when the
\* cell is empty.
IsValidDate(c) ==
    /\ Len(c) = 3
    /\ c[2] \in 1..12
    /\ c[3] \in 1..DaysInMonth(c[1], c[2])

\* pd.to_datetime of one cell that is empty or a valid date
to_datetime(c) ==
    IF c = <<>> THEN NaT ELSE [year |-> c[1], month |-> c[2], day |-> c[3]]

day_order == <<"Monday", "Tuesday", "Wednesday", "Thursday", "Friday",
               "Saturday", "Sunday">>

\* Days since 1970-01-01 (a Thursday) of a valid date.
DaysFromCivil(y, m, d) ==
    LET yy  == IF m <= 2 THEN y - 1 ELSE y
        era == yy \div 400
        yoe == yy - era * 400
        mp  == (m + 9) % 12
        doy == (153 * mp + 2) \div 5 + d - 1
        doe == yoe * 365 + yoe \div 4 - yoe \div 100 + doy
    IN  era * 146097 + doe - 719468

\* Series.dt.day_name() of one Timestamp
DayName(d) ==
    IF IsNaT(d) THEN NA
    ELSE day_order[((DaysFromCivil(d.year, d.month, d.day) + 3) % 7) + 1]

\* Series.dt.year / Series.dt.month of one Timestamp
YearOf(d) == IF IsNaT(d) THEN NaN ELSE d.year

MonthOf(d) == IF IsNaT(d) THEN NaN ELSE d.month

-----------------------------------------------------------------------------
(* DataFrame helpers *)

NoTable == [isNone |-> TRUE, columns |-> {}, rows |-> <<>>]

Column(df, col) == [i \in DOMAIN df.rows |-> df.rows[i][col]]

\* df[col] = values: the column is created or overwritten, rows keep their
\* order and every other field.
SetColumn(df, col, values) ==
    [df EXCEPT !.columns = @ \cup {col},
               !.rows = [i \in DOMAIN df.rows |->
                            [df.rows[i] EXCEPT ![col] = values[i]]]]

\* The distinct non-missing values of a column in order of first appearance.
RECURSIVE UniqueInOrder(_, _)
UniqueInOrder(s, na) ==
    IF s = <<>> THEN <<>>
    ELSE LET rest == UniqueInOrder(SubSeq(s, 1, Len(s) - 1), na)
             v    == s[Len(s)]
         IN  IF v = na \/ v \in Range(rest) THEN rest ELSE Append(rest, v)

CountOf(s, v) == Cardinality({i \in DOMAIN s : s[i] = v})

\* The entries of a set in blocks of equal count, highest count first.
RECURSIVE BlocksByCountDesc(_)
BlocksByCountDesc(es) ==
    IF es = {} THEN <<>>
    ELSE LET top == Max({e.count : e \in es})
             blk == {e \in es : e.count = top}
         IN  <<blk>> \o BlocksByCountDesc(es \ blk)

\* Series.value_counts(): missing values dropped, most frequent first; the
\* order of the entries within a block of equal counts is not determined.
value_counts(s) ==
    BlocksByCountDesc({[key |-> v, count |-> CountOf(s, v)] : v \in Range(s) \ {NA}})

\* The entries, the index and the length of such a Series, and Series.sum()
Entries(series) == UNION Range(series)

Labels(series) == {e.key : e \in Entries(series)}

SeriesLen(series) == Cardinality(Entries(series))

SeriesSum(series) ==
    LET es == SeqOf(Entries(series))
    IN  SumSeq([i \in DOMAIN es |-> es[i].count])

\* series.head(n) together with series.iloc[n:]: whole blocks go to the head
\* while they fit; of the block the cut falls in, any n of its entries may be
\* the ones that come first.
RECURSIVE SplitAt(_, _)
SplitAt(series, n) ==
    IF series = <<>> \/ n = 0 THEN {[head |-> <<>>, tail |-> series]}
    ELSE LET blk == Head(series)
             k   == Cardinality(blk)
         IN  IF k <= n
             THEN {[head |-> <<blk>> \o p.head, tail |-> p.tail] :
                      p \in SplitAt(Tail(series), n - k)}
             ELSE {[head |-> <<first>>, tail |-> <<blk \ first>> \o Tail(series)] :
                      first \in {K \in SUBSET blk : Cardinality(K) = n}}

\* The possible values of series.head(n)
Head_n(series, n) == {p.head : p \in SplitAt(series, n)}

RECURSIVE SortedSeq(_)
SortedSeq(S) ==
    IF S = {} THEN <<>>
    ELSE LET m == Min(S) IN <<m>> \o SortedSeq(S \ {m})

\* groupby(col, sort=False).size(): the groups in order of first appearance.
groupby_size_unsorted(s) ==
    LET ks == UniqueInOrder(s, NaN)
    IN  [i \in DOMAIN ks |-> [key |-> ks[i], count |-> CountOf(s, ks[i])]]

\* df.groupby(col).size() on a numeric column: rows whose key is NaN are
\* dropped, groups come sorted by key.
groupby_size(s) ==
    LET ks == SortedSeq(Range(s) \ {NaN})
    IN  [i \in DOMAIN ks |-> [key |-> ks[i], count |-> CountOf(s, ks[i])]]

\* A double that is not negative is kept as the record [limbs, exp, sticky]:
\* `limbs` are the digits of a number in base 2^9, most significant first,
\* its value is that number times Base^exp, plus, when `sticky` holds,
\* something positive below the last digit.  Counts stay below 2^22.
Mantissa == 53

LimbBits == 9

Base == 2 ^ LimbBits

\* The number of binary digits of n
RECURSIVE BitLength(_)
BitLength(n) == IF n = 0 THEN 0 ELSE 1 + BitLength(n \div 2)

RECURSIVE LimbsToInt(_)
LimbsToInt(ls) ==
    IF ls = <<>> THEN 0
    ELSE Base * LimbsToInt(SubSeq(ls, 1, Len(ls) - 1)) + ls[Len(ls)]

RECURSIVE IntToLimbs(_)
IntToLimbs(n) == IF n = 0 THEN <<>> ELSE Append(IntToLimbs(n \div Base), n % Base)

RECURSIVE StripZeros(_)
StripZeros(ls) ==
    IF ls # <<>> /\ ls[1] = 0 THEN StripZeros(Tail(ls)) ELSE ls

\* ls * factor + carry for a small factor
RECURSIVE TimesSmall(_, _, _)
TimesSmall(ls, factor, carry) ==
    IF ls = <<>> THEN IntToLimbs(carry)
    ELSE LET t == ls[Len(ls)] * factor + carry
         IN  Append(TimesSmall(SubSeq(ls, 1, Len(ls) - 1), factor, t \div Base),
                    t % Base)

\* The double nearest to a value (IEEE 754 round to nearest, ties to even):
\* the cut falls after the 53rd binary digit, counted from the leading one.
RoundToDouble(d) ==
    LET size == Len(d.limbs)
        cut  == (LimbBits - BitLength(d.limbs[1])) + Mantissa
        full == cut \div LimbBits
        unit == 2 ^ (LimbBits - (cut % LimbBits))
    IN  IF size * LimbBits <= cut
        THEN [limbs |-> d.limbs, exp |-> d.exp, sticky |-> FALSE]
        ELSE LET v     == d.limbs[full + 1]
                 kept  == Append(SubSeq(d.limbs, 1, full), (v \div unit) * unit)
                 low   == v % unit
                 guard == low >= unit \div 2
                 below == \/ low % (unit \div 2) # 0
                          \/ \E k \in (full + 2)..size : d.limbs[k] # 0
                          \/ d.sticky
                 odd   == IF unit < Base THEN (v \div unit) % 2 = 1
                          ELSE d.limbs[full] % 2 = 1
             IN  [limbs |-> IF guard /\ (below \/ odd)
                            THEN TimesSmall(kept, 1, unit) ELSE kept,
                  exp |-> d.exp + (size - (full + 1)),
                  sticky |-> FALSE]

\* The long division r / divisor carried on beyond the digits a double
\* holds; what is left of it is the sticky flag.
RECURSIVE LongDivision(_, _, _, _)
LongDivision(r, divisor, quotient, e) ==
    IF Len(quotient) * LimbBits >= Mantissa + 2 * LimbBits \/ (r = 0 /\ quotient # <<>>)
    THEN [limbs |-> quotient, exp |-> e, sticky |-> r # 0]
    ELSE LongDivision((r * Base) % divisor, divisor,
                      StripZeros(Append(quotient, (r * Base) \div divisor)), e - 1)

\* value / divisor in doubles, for value > 0
DoubleDiv(value, divisor) ==
    RoundToDouble(LongDivision(value % divisor, divisor,
                               IntToLimbs(value \div divisor), 0))

\* a * 100 in doubles
DoubleTimes100(a) ==
    RoundToDouble([limbs |-> TimesSmall(a.limbs, 100, 0), exp |-> a.exp,
                   sticky |-> FALSE])

\* numpy.rint of a double, as an integer: round half to even
Rint(product) ==
    IF product.exp >= 0 THEN LimbsToInt(product.limbs) * Base ^ product.exp
    ELSE LET whole  == Len(product.limbs) + product.exp
             digits == IF whole >= 0 THEN product.limbs
                       ELSE [k \in 1..(-whole) |-> 0] \o product.limbs
             int    == IF whole >= 0 THEN whole ELSE 0
             floor  == LimbsToInt(SubSeq(digits, 1, int))
             guard  == digits[int + 1] >= Base \div 2
             below  == \/ digits[int + 1] % (Base \div 2) # 0
                       \/ \E k \in (int + 2)..Len(digits) : digits[k] # 0
         IN  IF guard /\ (below \/ floor % 2 = 1) THEN floor + 1 ELSE floor

\* (value / divisor * 100).round(2), in hundredths of a percent.  The code
\* divides and multiplies in doubles, and round(2) multiplies the double by
\* 100 once more and takes numpy.rint of the product.
RoundPct2(value, divisor) ==
    IF value = 0 THEN 0
    ELSE Rint(DoubleTimes100(DoubleTimes100(DoubleDiv(value, divisor))))

\* The numbers of a sequence in ascending order.
RECURSIVE SortInts(_)
SortInts(s) ==
    IF s = <<>> THEN <<>>
    ELSE LET k == Min({i \in DOMAIN s : \A j \in DOMAIN s : s[i] <= s[j]})
         IN  <<s[k]>> \o SortInts(SubSeq(s, 1, k - 1) \o SubSeq(s, k + 1, Len(s)))

\* Series.dropna() of a numeric column
dropna(s) == SelectSeq(s, LAMBDA v : v # NaN)

NoNumber == [num |-> 0, den |-> 0]

\* Series.describe() of a numeric column: count, mean, min, median, max of
\* the non-missing values (std and the quartiles are not modelled).
describe(s) ==
    LET v == SortInts(dropna(s))
        n == Len(v)
    IN  IF n = 0
        THEN [count |-> 0, mean |-> NoNumber, min |-> NaN,
              median |-> NoNumber, max |-> NaN]
        ELSE [count |-> n,
              mean |-> [num |-> SumSeq(v), den |-> n],
              min |-> v[1],
              median |-> IF n % 2 = 1 THEN [num |-> v[(n + 1) \div 2], den |-> 1]
                         ELSE [num |-> v[n \div 2] + v[n \div 2 + 1], den |-> 2],
              max |-> v[n]]

-----------------------------------------------------------------------------
(* Static tables of the program *)

\* Reference population percentages, in tenths of a percent.
us_population_race ==
    [W |-> 724, B |-> 126, H |-> 163, A |-> 48, N |-> 9, O |-> 29]

region_mapping == <<
    [region |-> "Northeast",
     states |-> <<"CT", "ME", "MA", "NH", "NJ", "NY", "PA", "RI", "VT">>],
    [region |-> "Southeast",
     states |-> <<"AL", "AR", "FL", "GA", "KY", "LA", "MS", "NC", "SC", "TN",
                  "VA", "WV">>],
    [region |-> "Midwest",
     states |-> <<"IL", "IN", "IA", "KS", "MI", "MN", "MO", "NE", "ND", "OH",
                  "SD", "WI">>],
    [region |-> "Southwest", states |-> <<"AZ", "NM", "OK", "TX">>],
    [region |-> "West",
     states |-> <<"AK", "CA", "CO", "HI", "ID", "MT", "NV", "OR", "UT", "WA",
                  "WY">>],
    [region |-> "Other", states |-> <<"DC", "DE", "MD">>] >>

\* The dict built by the two nested loops: a later assignment to the same
\* state replaces an earlier one.
state_to_region ==
    LET listed == UNION {Range(region_mapping[i].states) : i \in DOMAIN region_mapping}
        last(st) == Max({i \in DOMAIN region_mapping :
                            st \in Range(region_mapping[i].states)})
    IN  [st \in listed |-> region_mapping[last(st)].region]

\* Series.map(dict) of one value: a value that is no key becomes missing.
MapRegion(st) ==
    IF st \in DOMAIN state_to_region THEN state_to_region[st] ELSE NA

\* Series.replace({...}) of one armed label
ReplaceArmed(a) ==
    CASE a = "gun" -> "firearm"
      [] a = "knife" -> "knife/blade"
      [] a = "unarmed" -> "unarmed"
      [] a = "unknown weapon" -> "unknown"
      [] OTHER -> a

\* Series.fillna('unknown') of one armed label
FillArmed(a) == IF a = NA THEN "unknown" ELSE a

TopArmed == 8

TopStatesBasic == 10

TopPlaces == 15

TopSummary == 5

MonthsInYear == 12

-----------------------------------------------------------------------------
(* load_data *)

OptionalColumns == {"age", "race", "gender", "armed", "state", "city"}

\* The cell of column `col` in a record of the file is empty.
IsEmptyCell(r, col) ==
    IF col = "date" THEN r.date = <<>>
    ELSE IF col = "age" THEN r.age = NaN
    ELSE r[col] = NA

\* pd.read_csv of a readable file [exists, columns, rows]: an empty cell is
\* read as a missing value, and a line that is blank (the only cell of a
\* one-column file is empty) is skipped.
read_csv(file) ==
    [isNone |-> FALSE, columns |-> file.columns,
     rows |-> SelectSeq(file.rows,
                 LAMBDA r : ~(Cardinality(file.columns) = 1
                              /\ \A col \in file.columns : IsEmptyCell(r, col)))]

\* pd.read_csv followed by the date and year assignments.  The result is the
\* table left in self.shootings_data and the value returned.
LoadResult(file, before) ==
    LET raw == read_csv(file)
        cells == Column(raw, "date")
        parsed == SetColumn(raw, "date", [i \in DOMAIN cells |-> to_datetime(cells[i])])
        dates == Column(parsed, "date")
        withYear == SetColumn(parsed, "year", [i \in DOMAIN dates |-> YearOf(dates[i])])
    IN  IF ~file.exists
        THEN [df |-> before, ret |-> FALSE]
        ELSE IF "date" \notin file.columns
        THEN [df |-> raw, ret |-> FALSE]
        ELSE IF \E i \in DOMAIN cells : cells[i] # <<>> /\ ~IsValidDate(cells[i])
        THEN [df |-> raw, ret |-> FALSE]
        ELSE [df |-> withYear, ret |-> TRUE]

-----------------------------------------------------------------------------
(* explore_basic_statistics *)

NotRun == [status |-> "not_run"]

NoData == [status |-> "no_data"]

Raised == [status |-> "raised"]

\* Series.min() / Series.max() of the date column, NaT skipped
DateKey(d) == DaysFromCivil(d.year, d.month, d.day)

DateMin(dates) ==
    LET S == {i \in DOMAIN dates : ~IsNaT(dates[i])}
    IN  IF S = {} THEN NaT
        ELSE dates[CHOOSE i \in S : \A j \in S : DateKey(dates[i]) <= DateKey(dates[j])]

DateMax(dates) ==
    LET S == {i \in DOMAIN dates : ~IsNaT(dates[i])}
    IN  IF S = {} THEN NaT
        ELSE dates[CHOOSE i \in S : \A j \in S : DateKey(dates[i]) >= DateKey(dates[j])]

\* (race_counts / len(self.shootings_data) * 100).round(2)
RacePercentages(race_counts, n) ==
    [i \in DOMAIN race_counts |->
        {[key |-> e.key, pct |-> RoundPct2(e.count, n)] : e \in race_counts[i]}]

ExploreResults(df) ==
    IF df.isNone THEN {NoData}
    ELSE IF "date" \notin df.columns \/ "year" \notin df.columns THEN {Raised}
    ELSE
    LET race_counts == value_counts(Column(df, "race"))
    IN  {[status |-> "returned",
          shape |-> <<Len(df.rows), Cardinality(df.columns)>>,
          date_range |-> <<DateMin(Column(df, "date")), DateMax(Column(df, "date"))>>,
          yearly_counts |-> groupby_size(Column(df, "year")),
          race_counts |-> IF "race" \in df.columns THEN race_counts ELSE <<>>,
          race_percentages |-> IF "race" \in df.columns
                               THEN RacePercentages(race_counts, Len(df.rows))
                               ELSE <<>>,
          age_stats |-> IF "age" \in df.columns
                        THEN <<describe(Column(df, "age"))>> ELSE <<>>,
          state_counts |-> state_counts] :
         state_counts \in
             IF "state" \in df.columns
             THEN Head_n(value_counts(Column(df, "state")), TopStatesBasic)
             ELSE {<<>>}}

-----------------------------------------------------------------------------
(* analyze_temporal_trends *)

\* The heights Axes.bar(range(1, 13), values) draws: x and the heights are
\* broadcast to one shape, so 12 values are drawn as they are, a single value
\* is repeated for every x, and any other number of values is an error
\* (reported here as <<>>).
BarHeights(values) ==
    IF Len(values) = MonthsInYear THEN values
    ELSE IF Len(values) = 1 THEN [m \in 1..MonthsInYear |-> values[1]]
    ELSE <<>>

\* value_counts()[day_order]: the counts in the order of day_order; a label
\* that is not in the index is an error (reported here as <<>>).
SelectByLabels(vc, labels) ==
    IF \A k \in DOMAIN labels : labels[k] \in Labels(vc)
    THEN [k \in DOMAIN labels |->
             (CHOOSE e \in Entries(vc) : e.key = labels[k]).count]
    ELSE <<>>

\* The result is the table left in self.shootings_data and what was computed.
TemporalResult(df) ==
    IF df.isNone THEN [df |-> df, out |-> NoData]
    ELSE IF "year" \notin df.columns THEN [df |-> df, out |-> Raised]
    ELSE
    LET yearly_counts == groupby_size(Column(df, "year"))
        dates == Column(df, "date")
        df1 == SetColumn(df, "month", [i \in DOMAIN dates |-> MonthOf(dates[i])])
        monthly_avg == groupby_size(Column(df1, "month"))
        monthly_bars == BarHeights(Counts(monthly_avg))
        df2 == SetColumn(df1, "day_of_week", [i \in DOMAIN dates |-> DayName(dates[i])])
        day_counts == SelectByLabels(value_counts(Column(df2, "day_of_week")), day_order)
        age_stats == describe(Column(df2, "age"))
        partial == [status |-> "raised", yearly_counts |-> yearly_counts,
                    monthly_avg |-> monthly_avg, monthly_bars |-> monthly_bars,
                    day_counts |-> <<>>, age |-> <<>>]
    IN  IF monthly_bars = <<>> THEN [df |-> df1, out |-> partial]
        ELSE IF day_counts = <<>> THEN [df |-> df2, out |-> partial]
        ELSE [df |-> df2,
              out |-> [partial EXCEPT
                         !.status = "returned",
                         !.day_counts = day_counts,
                         !.age = IF "age" \in df.columns
                                 THEN <<[mean |-> age_stats.mean,
                                         median |-> age_stats.median]>>
                                 ELSE <<>>]]

-----------------------------------------------------------------------------
(* analyze_demographic_patterns *)

\* race_counts / race_counts.sum() * 100
ShootingPercentages(race_counts) ==
    LET total == SeriesSum(race_counts)
    IN  [i \in DOMAIN race_counts |->
            {[key |-> e.key, pct |-> [num |-> e.count * 100, den |-> total]] :
                e \in race_counts[i]}]

\* The loop without its test `race in us_population_race`, the reference
\* rate of a code that is no key read as 100%.
ComparisonData_unfiltered(race_counts) ==
    LET pcts == ShootingPercentages(race_counts)
        pop(r) == IF r \in DOMAIN us_population_race THEN us_population_race[r] ELSE 1000
    IN  [i \in DOMAIN pcts |->
            {[Race |-> e.key,
              Shooting_Rate |-> e.pct,
              Population_Rate |-> pop(e.key),
              Ratio |-> [num |-> e.pct.num * 10, den |-> e.pct.den * pop(e.key)]] :
                e \in pcts[i]}]

\* The loop over race_counts.index that fills comparison_data: its rows come
\* in the order of race_counts, so in blocks as well.  Population rates are
\* in tenths of a percent, so Ratio = pct / (pop / 10).
ComparisonData(race_counts) ==
    LET pcts == ShootingPercentages(race_counts)
        blocks == [i \in DOMAIN pcts |->
                     {[Race |-> e.key,
                       Shooting_Rate |-> e.pct,
                       Population_Rate |-> us_population_race[e.key],
                       Ratio |-> [num |-> e.pct.num * 10,
                                  den |-> e.pct.den * us_population_race[e.key]]] :
                         e \in {x \in pcts[i] : x.key \in DOMAIN us_population_race}}]
    IN  SelectSeq(blocks, LAMBDA b : b # {})

\* top_categories['other'] = other_count on a Series: the entry labelled
\* 'other' is overwritten where it stands if there is one, else one is
\* appended.
SetItem(series, label, value) ==
    IF label \in Labels(series)
    THEN [i \in DOMAIN series |->
             {IF e.key = label THEN [e EXCEPT !.count = value] ELSE e :
                 e \in series[i]}]
    ELSE Append(series, {[key |-> label, count |-> value]})

\* The armed block: fillna, replace, value_counts, head(8), the rest summed
\* into 'other'.  The possible values of top_categories.
ArmedCategories(armed) ==
    LET armed_simplified == [i \in DOMAIN armed |-> ReplaceArmed(FillArmed(armed[i]))]
        armed_counts == value_counts(armed_simplified)
        \* top_categories = head(8) and other_count = iloc[8:].sum()
        result(p) == IF SeriesSum(p.tail) > 0
                     THEN SetItem(p.head, "other", SeriesSum(p.tail))
                     ELSE p.head
    IN  {result(p) : p \in SplitAt(armed_counts, TopArmed)}

DemographicResults(df) ==
    IF df.isNone THEN {NoData}
    ELSE
    LET hasRace == "race" \in df.columns
        race_counts == value_counts(Column(df, "race"))
        comparison == ComparisonData(race_counts)
        gender_counts == value_counts(Column(df, "gender"))
        racePart == [status |-> "raised",
                     race_counts |-> IF hasRace THEN race_counts ELSE <<>>,
                     shooting_percentages |->
                         IF hasRace THEN ShootingPercentages(race_counts) ELSE <<>>,
                     comparison_data |-> IF hasRace THEN comparison ELSE <<>>,
                     gender_counts |-> <<>>, gender_total |-> 0,
                     top_categories |-> <<>>]
    IN  \* comparison_df['Shooting_Rate'] on a frame built from an empty list
        IF hasRace /\ comparison = <<>> THEN {racePart}
        ELSE {[racePart EXCEPT
                 !.status = "returned",
                 !.gender_counts = IF "gender" \in df.columns THEN gender_counts ELSE <<>>,
                 !.gender_total = IF "gender" \in df.columns
                                  THEN SeriesSum(gender_counts) ELSE 0,
                 !.top_categories = top_categories] :
              top_categories \in
                  IF "armed" \in df.columns
                  THEN ArmedCategories(Column(df, "armed")) ELSE {<<>>}}

-----------------------------------------------------------------------------
(* analyze_geographic_patterns *)

\* The mapped regions assigned to the 'state' column instead of a new column.
GeographicResults_overwrites_state(df) ==
    IF df.isNone THEN {[df |-> df, out |-> NoData]}
    ELSE
    LET hasState == "state" \in df.columns
        states == Column(df, "state")
        df1 == SetColumn(df, "state", [i \in DOMAIN states |-> MapRegion(states[i])])
    IN  {[df |-> IF hasState THEN df1 ELSE df,
          out |-> [status |-> "returned",
                   state_counts |-> state_counts,
                   city_counts |-> city_counts,
                   region_counts |-> IF hasState
                                     THEN value_counts(Column(df1, "state")) ELSE <<>>]] :
         state_counts \in
             IF hasState THEN Head_n(value_counts(states), TopPlaces) ELSE {<<>>},
         city_counts \in
             IF "city" \in df.columns
             THEN Head_n(value_counts(Column(df, "city")), TopPlaces) ELSE {<<>>}}

\* The possible results: the table left in self.shootings_data and what was
\* computed.
GeographicResults(df) ==
    IF df.isNone THEN {[df |-> df, out |-> NoData]}
    ELSE
    LET hasState == "state" \in df.columns
        states == Column(df, "state")
        df1 == SetColumn(df, "region", [i \in DOMAIN states |-> MapRegion(states[i])])
    IN  {[df |-> IF hasState THEN df1 ELSE df,
          out |-> [status |-> "returned",
                   state_counts |-> state_counts,
                   city_counts |-> city_counts,
                   region_counts |-> IF hasState
                                     THEN value_counts(Column(df1, "region")) ELSE <<>>]] :
         state_counts \in
             IF hasState THEN Head_n(value_counts(states), TopPlaces) ELSE {<<>>},
         city_counts \in
             IF "city" \in df.columns
             THEN Head_n(value_counts(Column(df, "city")), TopPlaces) ELSE {<<>>}}

-----------------------------------------------------------------------------
(* generate_summary_report *)

\* Series.nunique(): the number of distinct non-missing values
nunique(s) == Cardinality(Range(s) \ {NaN})

\* count / total_shootings * 100 for the entries of a head(n)
PctOfTotal(top, total) ==
    [i \in DOMAIN top |->
        {[key |-> e.key, count |-> e.count,
          pct |-> [num |-> e.count * 100, den |-> total]] : e \in top[i]}]

\* Series.idxmax() / Series.idxmin() of a groupby(...).size(): the first
\* label holding the extreme
IdxMax(series) ==
    LET top == Max(Range(Counts(series)))
    IN  series[Min({i \in DOMAIN series : series[i].count = top})].key

IdxMin(series) ==
    LET low == Min(Range(Counts(series)))
    IN  series[Min({i \in DOMAIN series : series[i].count = low})].key

\* ((yearly_trend.iloc[-1] - yearly_trend.iloc[0]) / yearly_trend.iloc[0]) * 100
TrendChange(yearly_trend) ==
    [num |-> (yearly_trend[Len(yearly_trend)].count - yearly_trend[1].count) * 100,
     den |-> yearly_trend[1].count]

SummaryResults(df) ==
    IF df.isNone THEN {NoData}
    ELSE IF "year" \notin df.columns THEN {Raised}
    ELSE
    LET total_shootings == Len(df.rows)
        years_covered == nunique(Column(df, "year"))
        yearly_trend == groupby_size(Column(df, "year"))
    IN  \* total_shootings / years_covered divides by zero
        IF years_covered = 0 THEN {Raised}
        ELSE {[status |-> "returned",
               total_shootings |-> total_shootings,
               years_covered |-> years_covered,
               avg_per_year |-> [num |-> total_shootings, den |-> years_covered],
               date_range |-> <<DateMin(Column(df, "date")), DateMax(Column(df, "date"))>>,
               race_top |-> PctOfTotal(race_head, total_shootings),
               age_stats |-> IF "age" \in df.columns
                             THEN <<describe(Column(df, "age"))>> ELSE <<>>,
               top_states |-> PctOfTotal(state_head, total_shootings),
               yearly_trend |-> yearly_trend,
               trend_change |-> TrendChange(yearly_trend),
               highest_year |-> IdxMax(yearly_trend),
               lowest_year |-> IdxMin(yearly_trend)] :
              race_head \in
                  IF "race" \in df.columns
                  THEN Head_n(value_counts(Column(df, "race")), TopSummary) ELSE {<<>>},
              state_head \in
                  IF "state" \in df.columns
                  THEN Head_n(value_counts(Column(df, "state")), TopSummary) ELSE {<<>>}}

-----------------------------------------------------------------------------
(* The input files the model reads *)

\* The number of armed labels of ArmedPool an armed table may leave out.
MaxDropped == 2

Row(date, age, race, gender, armed, state, city) ==
    [date |-> date, age |-> age, race |-> race, gender |-> gender,
     armed |-> armed, state |-> state, city |-> city,
     year |-> NaN, month |-> NaN, day_of_week |-> NA, region |-> NA]

\* A row as the file holds it when only the columns `cols` exist.
Project(r, cols) ==
    [date |-> IF "date" \in cols THEN r.date ELSE <<>>,
     age |-> IF "age" \in cols THEN r.age ELSE NaN,
     race |-> IF "race" \in cols THEN r.race ELSE NA,
     gender |-> IF "gender" \in cols THEN r.gender ELSE NA,
     armed |-> IF "armed" \in cols THEN r.armed ELSE NA,
     state |-> IF "state" \in cols THEN r.state ELSE NA,
     city |-> IF "city" \in cols THEN r.city ELSE NA,
     year |-> NaN, month |-> NaN, day_of_week |-> NA, region |-> NA]

File(cols, rows) ==
    [exists |-> TRUE, columns |-> cols,
     rows |-> [i \in DOMAIN rows |-> Project(rows[i], cols)]]

MissingFile == [exists |-> FALSE, columns |-> {}, rows |-> <<>>]

AllColumns == {"date"} \cup OptionalColumns

ColumnSets == {{"date"} \cup S : S \in SUBSET OptionalColumns} \cup {OptionalColumns}

\* Rows that differ in every column: a mapped and an unmapped race and state,
\* a row with every cell empty, and a date that is no calendar date.
RowPool == {
    Row(<<2016, 3, 5>>, 30, "W", "M", "gun", "TX", "Houston"),
    Row(<<2015, 7, 14>>, 25, "B", "F", "knife", "PR", NA),
    Row(<<>>, NaN, NA, NA, NA, NA, NA),
    Row(<<2017, 3, 5>>, 41, "X", "M", "other", "CA", "Houston"),
    Row(<<2015, 2, 30>>, 52, "H", "M", "unarmed", "NY", "Albany") }

SmallTables == UNION {[1..n -> RowPool] : n \in 0..MaxRows}

\* Seven rows that cover every weekday within one month of two years, the
\* later year first.
WeekRows == <<
    Row(<<2016, 3, 1>>, 30, "W", "M", "gun", "TX", "Houston"),
    Row(<<2016, 3, 2>>, 19, "B", "M", "gun", "CA", "Fresno"),
    Row(<<2016, 3, 3>>, 44, "W", "F", "knife", "TX", "Austin"),
    Row(<<2016, 3, 4>>, NaN, "H", "M", "unarmed", "DC", "Washington"),
    Row(<<2015, 3, 7>>, 30, NA, "M", NA, "TX", "Houston"),
    Row(<<2015, 3, 8>>, 61, "X", "M", "toy weapon", NA, "Houston"),
    Row(<<2015, 3, 9>>, 27, "W", NA, "gun", "GU", "Dededo") >>

\* Twelve rows, one in each month of a year, that cover every weekday.
YearRows ==
    [m \in 1..MonthsInYear |->
        Row(<<2015, m, m>>, 20 + m, IF m % 3 = 0 THEN "B" ELSE "W", "M", "gun",
            IF m % 2 = 0 THEN "TX" ELSE "FL", "Houston")]

ExtraRows == {<<>>} \cup {<<r>> : r \in RowPool}

ArmedPool == <<"gun", "knife", "unknown weapon", NA, "toy weapon", "vehicle",
               "machete", "ax", "Taser", "other", "unarmed">>

\* One row for each armed label of the pool that is not dropped, in the
\* pool's order, then one more row for each label of `again`; the dates run
\* through the seven days of one week.
ArmedRows(dropped, again) ==
    LET keep == SelectSeq(ArmedPool, LAMBDA a : a \notin dropped)
        labels == keep \o SelectSeq(keep, LAMBDA a : a \in again)
    IN  [i \in DOMAIN labels |->
            Row(<<2016, 3, ((i - 1) % 7) + 1>>, 30, "W", "M", labels[i], "TX", "Houston")]

ArmedTables ==
    {ArmedRows(dropped, again) :
        dropped \in {D \in SUBSET Range(ArmedPool) : Cardinality(D) <= MaxDropped},
        again \in {{}} \cup {{a} : a \in Range(ArmedPool)}}

MainFiles ==
    {MissingFile}
    \cup {File(cols, rows) : cols \in ColumnSets, rows \in SmallTables}
    \cup {File(cols, WeekRows \o x) : cols \in ColumnSets, x \in ExtraRows}
    \cup {File(AllColumns, YearRows \o x) : x \in ExtraRows}
    \cup {File(AllColumns, rows) : rows \in ArmedTables}

\* The rows of RowPool that load: a mapped race and state, an unmapped race,
\* and the row with every cell empty.
ApiRowPool == {r \in RowPool : r.race \in {"W", "X", NA}}

ApiTables == UNION {[1..n -> ApiRowPool] : n \in 0..MaxRows}

ApiFiles ==
    {MissingFile, File(AllColumns, WeekRows), File(OptionalColumns, WeekRows),
     File(AllColumns, ArmedRows({}, {})), File(AllColumns, ArmedRows({}, {"other"}))}
    \cup {File(AllColumns, <<r>>) : r \in RowPool}
    \cup {File(AllColumns, rows) : rows \in ApiTables}

-----------------------------------------------------------------------------
(* main() and the calls a user of the class can make *)

Operations == <<"load_data", "explore_basic_statistics", "analyze_temporal_trends",
                "analyze_demographic_patterns", "analyze_geographic_patterns",
                "generate_summary_report">>

\* main() calls the methods in this order and returns after the last one.
NextInMain(op) ==
    LET k == CHOOSE i \in DOMAIN Operations : Operations[i] = op
    IN  IF k = Len(Operations) THEN "done" ELSE Operations[k + 1]

\* pc = "api": the object is driven by calls made in any order; an exception
\* goes back to the caller, who may call again.
CanCall(op) == pc = op \/ (pc = "api" /\ Len(executed) < MaxCalls)

\* Where control is after a call of main() or of the caller returned or raised.
AfterCall(op, status) ==
    IF pc = "api" THEN "api"
    ELSE IF status = "raised" THEN "crashed"
    ELSE NextInMain(op)

Init ==
    /\ \/ pc = "load_data" /\ csv_file \in MainFiles
       \/ pc = "api" /\ csv_file \in ApiFiles
    /\ shootings_data = NoTable
    /\ executed = <<>>
    /\ load_ret = "not_called"
    /\ basic = NotRun
    /\ temporal = NotRun
    /\ demographic = NotRun
    /\ geographic = NotRun
    /\ summary = NotRun

load_data ==
    /\ CanCall("load_data")
    /\ LET r == LoadResult(csv_file, shootings_data)
       IN  /\ shootings_data' = r.df
           /\ load_ret' = IF r.ret THEN "True" ELSE "False"
           /\ pc' = IF pc = "api" THEN "api"
                    ELSE IF r.ret THEN NextInMain("load_data") ELSE "halted"
    /\ executed' = Append(executed, "load_data")
    /\ UNCHANGED <<csv_file, basic, temporal, demographic, geographic, summary>>

explore_basic_statistics ==
    /\ CanCall("explore_basic_statistics")
    /\ basic' \in ExploreResults(shootings_data)
    /\ pc' = AfterCall("explore_basic_statistics", basic'.status)
    /\ executed' = Append(executed, "explore_basic_statistics")
    /\ UNCHANGED <<csv_file, shootings_data, load_ret, temporal, demographic,
                   geographic, summary>>

analyze_temporal_trends ==
    /\ CanCall("analyze_temporal_trends")
    /\ LET r == TemporalResult(shootings_data)
       IN  /\ shootings_data' = r.df
           /\ temporal' = r.out
    /\ pc' = AfterCall("analyze_temporal_trends", temporal'.status)
    /\ executed' = Append(executed, "analyze_temporal_trends")
    /\ UNCHANGED <<csv_file, load_ret, basic, demographic, geographic, summary>>

analyze_demographic_patterns ==
    /\ CanCall("analyze_demographic_patterns")
    /\ demographic' \in DemographicResults(shootings_data)
    /\ pc' = AfterCall("analyze_demographic_patterns", demographic'.status)
    /\ executed' = Append(executed, "analyze_demographic_patterns")
    /\ UNCHANGED <<csv_file, shootings_data, load_ret, basic, temporal,
                   geographic, summary>>

analyze_geographic_patterns ==
    /\ CanCall("analyze_geographic_patterns")
    /\ \E r \in GeographicResults(shootings_data) :
           /\ shootings_data' = r.df
           /\ geographic' = r.out
    /\ pc' = AfterCall("analyze_geographic_patterns", geographic'.status)
    /\ executed' = Append(executed, "analyze_geographic_patterns")
    /\ UNCHANGED <<csv_file, load_ret, basic, temporal, demographic, summary>>

generate_summary_report ==
    /\ CanCall("generate_summary_report")
    /\ summary' \in SummaryResults(shootings_data)
    /\ pc' = AfterCall("generate_summary_report", summary'.status)
    /\ executed' = Append(executed, "generate_summary_report")
    /\ UNCHANGED <<csv_file, shootings_data, load_ret, basic, temporal,
                   demographic, geographic>>

Next ==
    \/ load_data
    \/ explore_basic_statistics
    \/ analyze_temporal_trends
    \/ analyze_demographic_patterns
    \/ analyze_geographic_patterns
    \/ generate_summary_report

Spec == Init /\ [][Next]_vars

-----------------------------------------------------------------------------
(* What the claims are stated over: the file itself, read independently of *)
(* the table the program keeps.                                            *)

Loaded == load_ret = "True" /\ ~shootings_data.isNone

Ran(out) == out.status \in {"returned", "raised"}

\* The records of the file (its lines that are not blank).
FileRows == read_csv(csv_file).rows

Dated == {i \in DOMAIN FileRows : FileRows[i].date # <<>>}

FileYears == {FileRows[i].date[1] : i \in Dated}

InYear(y) == Cardinality({i \in Dated : FileRows[i].date[1] = y})

InMonth(m) == Cardinality({i \in Dated : FileRows[i].date[2] = m})

OnDay(name) ==
    Cardinality({i \in Dated : DayName(to_datetime(FileRows[i].date)) = name})

FileRaces == {FileRows[i].race : i \in DOMAIN FileRows} \ {NA}

WithRace(r) == Cardinality({i \in DOMAIN FileRows : FileRows[i].race = r})

HavingRace == Cardinality({i \in DOMAIN FileRows : FileRows[i].race # NA})

RegionNames == {region_mapping[i].region : i \in DOMAIN region_mapping}

-----------------------------------------------------------------------------
(* C1 *)

\* C1: whenever an operation has grouped the loaded records by year, the
\* per-year counts sum to the number of rows of the table, also when some
\* rows have no date.
C1_YearlyCountsSumToTotal ==
    Loaded =>
        /\ basic.status = "returned" =>
              SumSeq(Counts(basic.yearly_counts)) = Len(shootings_data.rows)
        /\ Ran(temporal) =>
              SumSeq(Counts(temporal.yearly_counts)) = Len(shootings_data.rows)
        /\ summary.status = "returned" =>
              SumSeq(Counts(summary.yearly_trend)) = Len(shootings_data.rows)

-----------------------------------------------------------------------------
(* C2 *)

\* C2: for a loaded table with at least one record, the race percentages sum
\* to 100% up to rounding where explore_basic_statistics computes them (the
\* race counts add up to the number of rows) and where
\* analyze_demographic_patterns computes them, also when some records have
\* no race.
C2_RacePercentagesSumTo100 ==
    (Loaded /\ "race" \in csv_file.columns /\ Len(FileRows) >= 1) =>
        /\ basic.status = "returned" =>
              LET es   == SeqOf(Entries(basic.race_percentages))
                  pcts == [i \in DOMAIN es |-> es[i].pct]
                  off  == SumSeq(pcts) - 10000
              IN  /\ SeriesSum(basic.race_counts) = Len(FileRows)
                  /\ 2 * off <= Len(pcts)
                  /\ 2 * (0 - off) <= Len(pcts)
        /\ Ran(demographic) =>
              LET pcts == SeqOf(Entries(demographic.shooting_percentages))
              IN  /\ pcts # <<>>
                  /\ \A i \in DOMAIN pcts :
                        pcts[i].pct.den = SeriesSum(demographic.race_counts)
                  /\ SumSeq([i \in DOMAIN pcts |-> pcts[i].pct.num])
                        = 100 * pcts[1].pct.den

-----------------------------------------------------------------------------
(* C3 *)

\* C3: on a loaded table with at least one dated record
\* generate_summary_report completes and its trend change is
\* (count of the latest year - count of the earliest year) / count of the
\* earliest year * 100, whatever the order of the rows.
C3_TrendChangeFirstToLast ==
    (Loaded /\ Ran(summary) /\ Dated # {}) =>
        /\ summary.status = "returned"
        /\ summary.trend_change =
              [num |-> (InYear(Max(FileYears)) - InYear(Min(FileYears))) * 100,
               den |-> InYear(Min(FileYears))]

\* The summary was printed for a table whose first row is not of the earliest
\* year and whose earliest and latest year differ in their counts.
C3_Witness ==
    /\ Loaded
    /\ summary.status = "returned"
    /\ FileRows[1].date # <<>>
    /\ FileRows[1].date[1] # Min(FileYears)
    /\ InYear(Max(FileYears)) # InYear(Min(FileYears))
    /\ summary.trend_change.num # 0

-----------------------------------------------------------------------------
(* C4 *)

\* C4: the race-ratio table has exactly one row for each race code that
\* occurs in the data and is a key of the reference table, none for any other
\* code, and each Ratio is the race's share of the shootings with a race, in
\* percent, divided by its reference percentage.
C4_RatioTableRows ==
    (~shootings_data.isNone /\ Ran(demographic) /\ "race" \in csv_file.columns) =>
        LET table == Entries(demographic.comparison_data)
            rowsOf(r) == {row \in table : row.Race = r}
        IN  /\ \A row \in table :
                  row.Race \in FileRaces \cap DOMAIN us_population_race
            /\ \A r \in FileRaces \cap DOMAIN us_population_race :
                  /\ Cardinality(rowsOf(r)) = 1
                  /\ \A row \in rowsOf(r) :
                        /\ row.Ratio.den # 0
                        /\ row.Ratio.num * (HavingRace * us_population_race[r])
                              = row.Ratio.den * (WithRace(r) * 1000)

\* The table was built from data that holds two mapped races, a race code the
\* reference table lacks and a record without race.
C4_Witness ==
    /\ demographic.status = "returned"
    /\ SeriesLen(demographic.comparison_data) >= 2
    /\ FileRaces \ DOMAIN us_population_race # {}
    /\ HavingRace < Len(FileRows)

-----------------------------------------------------------------------------
(* C5 *)

\* C5: once analyze_geographic_patterns has run on a loaded table with a
\* state column, no state code is listed under two regions and every record
\* has one region.
C5_EveryRecordHasOneRegion ==
    (Loaded /\ geographic.status = "returned" /\ "region" \in shootings_data.columns) =>
        /\ \A st \in DOMAIN state_to_region :
              Cardinality({i \in DOMAIN region_mapping :
                              st \in Range(region_mapping[i].states)}) = 1
        /\ \A i \in DOMAIN shootings_data.rows :
              shootings_data.rows[i].region \in RegionNames

-----------------------------------------------------------------------------
(* C6 *)

\* C6: the armed table has at most 9 entries and its counts sum to the number
\* of records, for any input.
C6_ArmedTopEightPlusOther ==
    (~shootings_data.isNone /\ demographic.status = "returned"
        /\ "armed" \in csv_file.columns) =>
        /\ SeriesLen(demographic.top_categories) <= TopArmed + 1
        /\ SeriesSum(demographic.top_categories) = Len(FileRows)

-----------------------------------------------------------------------------
(* C7 *)

\* C7: when main() has ended, it ran load_data alone if load_data returned
\* False, and load_data and the five analysis operations, once each and in
\* order, if it returned True.
C7_MainRunsAllOrHalts ==
    pc \in {"halted", "crashed", "done"} =>
        IF load_ret = "False" THEN executed = <<"load_data">>
        ELSE executed = Operations

-----------------------------------------------------------------------------
(* C8 *)

\* C8: on a loaded table, whatever optional columns are missing, no analysis
\* operation raises, and an operation that has run computed what its present
\* columns allow and nothing for a missing column.
C8_MissingColumnsAreSkipped ==
    Loaded =>
        /\ \A out \in {basic, temporal, demographic, geographic, summary} :
              out.status # "raised"
        /\ basic.status = "returned" =>
              /\ (basic.age_stats # <<>>) <=> ("age" \in csv_file.columns)
              /\ "race" \notin csv_file.columns => basic.race_counts = <<>>
              /\ "state" \notin csv_file.columns => basic.state_counts = <<>>
        /\ demographic.status = "returned" =>
              /\ "race" \notin csv_file.columns => demographic.race_counts = <<>>
              /\ "gender" \notin csv_file.columns => demographic.gender_counts = <<>>
              /\ "armed" \notin csv_file.columns => demographic.top_categories = <<>>
        /\ geographic.status = "returned" =>
              /\ "state" \notin csv_file.columns => geographic.region_counts = <<>>
              /\ "city" \notin csv_file.columns => geographic.city_counts = <<>>

-----------------------------------------------------------------------------
(* C9 *)

\* C9: on a loaded table with at least one record analyze_temporal_trends
\* completes with 12 monthly counts, the count of month m at position m, and
\* 7 day-of-week counts in the order Monday..Sunday, zero where the data has
\* no incident.
C9_TwelveMonthsSevenDays ==
    (Loaded /\ Ran(temporal) /\ Len(FileRows) >= 1) =>
        /\ temporal.status = "returned"
        /\ Len(temporal.monthly_bars) = MonthsInYear
        /\ \A m \in 1..MonthsInYear : temporal.monthly_bars[m] = InMonth(m)
        /\ Len(temporal.day_counts) = Len(day_order)
        /\ \A k \in DOMAIN day_order : temporal.day_counts[k] = OnDay(day_order[k])

-----------------------------------------------------------------------------
(* C10 *)

OriginalColumns == AllColumns \cup {"year"}

DerivedBy(op) ==
    CASE op = "analyze_temporal_trends" -> {"month", "day_of_week"}
      [] op = "analyze_geographic_patterns" -> {"region"}
      [] OTHER -> {}

\* The table as load_data leaves it when nothing else has run.
FreshTable == LoadResult(csv_file, NoTable).df

Called(op) == executed' = Append(executed, op)

\* The counts, percentages, ratios and trend values of an output: all of it
\* but the number of columns that explore_basic_statistics prints as part of
\* the table's shape, which grows with every derived column.
StatisticsOf(out) ==
    IF "shape" \in DOMAIN out THEN [out EXCEPT !.shape = <<@[1]>>] ELSE out

\* What a call of `op` can compute when it is the first call after the load.
FreshOutputs(op) ==
    CASE op = "explore_basic_statistics" -> ExploreResults(FreshTable)
      [] op = "analyze_temporal_trends" -> {TemporalResult(FreshTable).out}
      [] op = "analyze_demographic_patterns" -> DemographicResults(FreshTable)
      [] op = "analyze_geographic_patterns" ->
             {r.out : r \in GeographicResults(FreshTable)}
      [] op = "generate_summary_report" -> SummaryResults(FreshTable)

Outputs == [explore_basic_statistics |-> basic,
            analyze_temporal_trends |-> temporal,
            analyze_demographic_patterns |-> demographic,
            analyze_geographic_patterns |-> geographic,
            generate_summary_report |-> summary]

AnalysisOperations == DOMAIN Outputs

\* A call of `op` on a loaded table keeps the rows and every original column,
\* adds at most the columns `op` derives, and computes what it would have
\* computed had it been the first call after the load.
FrameOfCall(op) ==
    LET old == shootings_data
        new == shootings_data'
    IN  /\ ~new.isNone
        /\ Len(new.rows) = Len(old.rows)
        /\ \A i \in DOMAIN old.rows : \A c \in OriginalColumns :
              new.rows[i][c] = old.rows[i][c]
        /\ old.columns \subseteq new.columns
        /\ new.columns \ old.columns \subseteq DerivedBy(op)
        /\ DerivedBy(op) = {} => new = old
        /\ StatisticsOf(Outputs'[op]) \in {StatisticsOf(out) : out \in FreshOutputs(op)}
        /\ \A other \in AnalysisOperations \ {op} : Outputs'[other] = Outputs[other]

\* A call of `op` while no table is loaded returns at once.
NoTableCall(op) ==
    /\ shootings_data' = shootings_data
    /\ Outputs'[op] = NoData
    /\ \A other \in AnalysisOperations \ {op} : Outputs'[other] = Outputs[other]

\* C10: after a successful load an analysis operation changes no row and no
\* original column, adds only the derived columns of its own (month and
\* day_of_week, region), computes the same values whichever operations ran
\* before it, and returns without a change when no table is loaded.
C10_AnalysisLeavesTableAlone ==
    [][\A op \in AnalysisOperations :
          Called(op) =>
             /\ Loaded => FrameOfCall(op)
             /\ shootings_data.isNone => NoTableCall(op)]_vars

\* The summary was computed as the third call, after the load and after
\* analyze_temporal_trends had added its columns to the table.
C10_Witness ==
    /\ Loaded
    /\ executed = <<"load_data", "analyze_temporal_trends", "generate_summary_report">>
    /\ summary.status = "returned"
    /\ "month" \in shootings_data.columns
    /\ \E i \in DOMAIN shootings_data.rows : shootings_data.rows[i].month # NaN

====
